---- MODULE Spec2Model ----
(***************************************************************************)
(* A model of EnhancedBusinessAgent (src/business_agent.py): the pending-  *)
(* lead store, the two recorders with their JSON files, process_message    *)
(* and the Gradio entry point chat_interface.                              *)
(*                                                                         *)
(* A Python str is a sequence of one-character strings, so that len, the   *)
(* "in" test, str.lower and the two regular expressions are computed and   *)
(* not assumed.  Python's None is the value None below, which is no str.   *)
(***************************************************************************)
EXTENDS Integers, Sequences, FiniteSets, TLC

-----------------------------------------------------------------------------
(* Python values *)

\* Python's None: a one-element tuple that no sequence of characters equals.
None ==
    <<"None">>

\* Python's False, where a str or None may stand as well
False ==
    <<"False">>

\* Truthiness as  "is not None"  would test it: the empty string passes
IsNotNone(v) ==
    v # None

\* Python truthiness of a value: not None, not False, not the empty string
Truthy(v) ==
    v \notin {None, False, <<>>}

\* "b or a": the operands of "a or b" taken in the other order
OrLatter(a, b) ==
    IF Truthy(b) THEN b ELSE a

\* Python's "a or b" on Optional[str] values.
Or(a, b) ==
    IF Truthy(a) THEN a ELSE b

Max(S) ==
    CHOOSE x \in S : \A y \in S : y <= x

Min(S) ==
    CHOOSE x \in S : \A y \in S : x <= y

-----------------------------------------------------------------------------
(* String literals of the source *)

\* "Interested Client"  -- business_agent.py:152
DEFAULT_NAME ==
    <<"I","n","t","e","r","e","s","t","e","d"," ","C","l","i","e","n","t">>

\* "General inquiry about creative services"  -- business_agent.py:154
DEFAULT_MESSAGE ==
    <<"G","e","n","e","r","a","l"," ","i","n","q","u","i","r","y"," ","a",
      "b","o","u","t"," ","c","r","e","a","t","i","v","e"," ","s","e","r",
      "v","i","c","e","s">>

\* "I'd love to help you! Could you please provide your email address so our team can contact you?"  -- business_agent.py:157
EMAIL_PROMPT ==
    <<"I","'","d"," ","l","o","v","e"," ","t","o"," ","h","e","l","p"," ",
      "y","o","u","!"," ","C","o","u","l","d"," ","y","o","u"," ","p","l",
      "e","a","s","e"," ","p","r","o","v","i","d","e"," ","y","o","u","r",
      " ","e","m","a","i","l"," ","a","d","d","r","e","s","s"," ","s","o",
      " ","o","u","r"," ","t","e","a","m"," ","c","a","n"," ","c","o","n",
      "t","a","c","t"," ","y","o","u","?">>

\* "Thank you "  -- business_agent.py:185 (the f-string, cut at its fields)
THANKS_1 ==
    <<"T","h","a","n","k"," ","y","o","u"," ">>

\* "! We've received your interest in '"
THANKS_2 ==
    <<"!"," ","W","e","'","v","e"," ","r","e","c","e","i","v","e","d"," ",
      "y","o","u","r"," ","i","n","t","e","r","e","s","t"," ","i","n"," ",
      "'">>

\* "' and will contact you at "
THANKS_3 ==
    <<"'"," ","a","n","d"," ","w","i","l","l"," ","c","o","n","t","a","c",
      "t"," ","y","o","u"," ","a","t"," ">>

\* " within 24 hours. Our creative director will reach out to discuss your vision!"
THANKS_4 ==
    <<" ","w","i","t","h","i","n"," ","2","4"," ","h","o","u","r","s",".",
      " ","O","u","r"," ","c","r","e","a","t","i","v","e"," ","d","i","r",
      "e","c","t","o","r"," ","w","i","l","l"," ","r","e","a","c","h"," ",
      "o","u","t"," ","t","o"," ","d","i","s","c","u","s","s"," ","y","o",
      "u","r"," ","v","i","s","i","o","n","!">>

\* "We've noted your question about '"  -- business_agent.py:206 (the f-string, cut at its field)
NOTED_1 ==
    <<"W","e","'","v","e"," ","n","o","t","e","d"," ","y","o","u","r"," ",
      "q","u","e","s","t","i","o","n"," ","a","b","o","u","t"," ","'">>

\* "'. Our creative team will research this and include insights in our follow-up. Thank you for pushing our boundaries!"
NOTED_2 ==
    <<"'","."," ","O","u","r"," ","c","r","e","a","t","i","v","e"," ","t",
      "e","a","m"," ","w","i","l","l"," ","r","e","s","e","a","r","c","h",
      " ","t","h","i","s"," ","a","n","d"," ","i","n","c","l","u","d","e",
      " ","i","n","s","i","g","h","t","s"," ","i","n"," ","o","u","r"," ",
      "f","o","l","l","o","w","-","u","p","."," ","T","h","a","n","k"," ",
      "y","o","u"," ","f","o","r"," ","p","u","s","h","i","n","g"," ","o",
      "u","r"," ","b","o","u","n","d","a","r","i","e","s","!">>

\* "I apologize, but I'm experiencing creative block (technical difficulties). Please try again or contact us directly at hello@nexuscreativelabs.com."  -- business_agent.py:339
APOLOGY ==
    <<"I"," ","a","p","o","l","o","g","i","z","e",","," ","b","u","t"," ",
      "I","'","m"," ","e","x","p","e","r","i","e","n","c","i","n","g"," ",
      "c","r","e","a","t","i","v","e"," ","b","l","o","c","k"," ","(","t",
      "e","c","h","n","i","c","a","l"," ","d","i","f","f","i","c","u","l",
      "t","i","e","s",")","."," ","P","l","e","a","s","e"," ","t","r","y",
      " ","a","g","a","i","n"," ","o","r"," ","c","o","n","t","a","c","t",
      " ","u","s"," ","d","i","r","e","c","t","l","y"," ","a","t"," ","h",
      "e","l","l","o","@","n","e","x","u","s","c","r","e","a","t","i","v",
      "e","l","a","b","s",".","c","o","m",".">>

\* "I apologize for the creative interruption. Please try again."  -- business_agent.py:366
CHAT_APOLOGY ==
    <<"I"," ","a","p","o","l","o","g","i","z","e"," ","f","o","r"," ","t",
      "h","e"," ","c","r","e","a","t","i","v","e"," ","i","n","t","e","r",
      "r","u","p","t","i","o","n","."," ","P","l","e","a","s","e"," ","t",
      "r","y"," ","a","g","a","i","n",".">>

\* "record_customer_interest"  -- business_agent.py:308
FN_RECORD_CUSTOMER_INTEREST ==
    <<"r","e","c","o","r","d","_","c","u","s","t","o","m","e","r","_","i",
      "n","t","e","r","e","s","t">>

\* "record_feedback"  -- business_agent.py:317
FN_RECORD_FEEDBACK ==
    <<"r","e","c","o","r","d","_","f","e","e","d","b","a","c","k">>

\* business_agent.py:250
INTEREST_KEYWORDS ==
    { <<"p","r","o","j","e","c","t">>,
      <<"i","n","t","e","r","e","s","t","e","d">>,
      <<"h","e","l","p"," ","w","i","t","h">>,
      <<"l","o","o","k","i","n","g"," ","f","o","r">> }

\* business_agent.py:326
CONTACT_KEYWORDS ==
    { <<"c","o","n","t","a","c","t">>,
      <<"e","m","a","i","l">>,
      <<"r","e","a","c","h">>,
      <<"c","a","l","l">>,
      <<"t","a","l","k">> }

\* business_agent.py:286
HINT_SKIP_WORDS ==
    { <<"r","e","c","o","r","d">>,
      <<"c","a","p","t","u","r","e">>,
      <<"l","e","a","d">> }

\* business_agent.py:324
FUNCTION_NAMES ==
    {FN_RECORD_CUSTOMER_INTEREST, FN_RECORD_FEEDBACK}

\* business_agent.py:116, the alternation in its order, lower-cased (re.IGNORECASE)
NAME_INTROS ==
    << <<"m","y"," ","n","a","m","e"," ","i","s">>,
       <<"i","'","m">>,
       <<"c","a","l","l"," ","m","e">>,
       <<"t","h","i","s"," ","i","s">> >>

-----------------------------------------------------------------------------
(* str operations and the character classes of the two regular expressions *)

UPPERCASE ==
    <<"A","B","C","D","E","F","G","H","I","J","K","L","M",
      "N","O","P","Q","R","S","T","U","V","W","X","Y","Z">>

LOWERCASE ==
    <<"a","b","c","d","e","f","g","h","i","j","k","l","m",
      "n","o","p","q","r","s","t","u","v","w","x","y","z">>

Letters ==
    {UPPERCASE[i] : i \in 1..26} \cup {LOWERCASE[i] : i \in 1..26}

Digits ==
    {"0","1","2","3","4","5","6","7","8","9"}

\* \w, as \b reads it
WordChars ==
    Letters \cup Digits \cup {"_"}

\* \s
Whitespace ==
    {" ", "\t", "\n", "\r", "\f"}

\* [A-Za-z0-9._%+-]
LOCAL_CHARS ==
    Letters \cup Digits \cup {".", "_", "%", "+", "-"}

\* [A-Za-z0-9.-]
DOMAIN_CHARS ==
    Letters \cup Digits \cup {".", "-"}

\* [A-Z|a-z]: the bar inside the brackets is a member of the class
TLD_CHARS ==
    Letters \cup {"|"}

ToLower(c) ==
    IF \E i \in 1..26 : UPPERCASE[i] = c
    THEN LOWERCASE[CHOOSE i \in 1..26 : UPPERCASE[i] = c]
    ELSE c

\* str.lower()
lower(s) ==
    [i \in 1..Len(s) |-> ToLower(s[i])]

\* Python's "w in s" on two strs
Contains(s, w) ==
    \E i \in 1..(Len(s) - Len(w) + 1) : SubSeq(s, i, i + Len(w) - 1) = w

\* any(word in message.lower() for word in words)
AnyWordIn(words, message) ==
    \E w \in words : Contains(lower(message), w)

\* The last index of the longest run of characters of class that starts at i
\* (i - 1 when there is none): what a greedy  [class]*  consumes.
RunEnd(s, i, class) ==
    Max({j \in (i - 1)..Len(s) : \A k \in i..j : s[k] \in class})

\* \b between positions i - 1 and i
Boundary(s, i) ==
    (i - 1 \in 1..Len(s) /\ s[i - 1] \in WordChars)
        # (i \in 1..Len(s) /\ s[i] \in WordChars)

\* The end of the match of the e-mail pattern that starts at i, 0 when there
\* is none. The local part runs up to the "@"; the domain is greedy, so the
\* last dot that leaves a top-level part of two or more characters ending at
\* a word boundary is taken, and then the longest such top-level part.
EmailMatchEnd(s, i) ==
    LET a == RunEnd(s, i, LOCAL_CHARS)
        d == RunEnd(s, a + 2, DOMAIN_CHARS)
        ends(p) == {q \in (p + 2)..RunEnd(s, p + 1, TLD_CHARS) : Boundary(s, q + 1)}
        dots == {p \in (a + 3)..d : s[p] = "." /\ ends(p) # {}}
    IN  IF /\ Boundary(s, i)
           /\ a >= i
           /\ a < Len(s)
           /\ s[a + 1] = "@"
           /\ dots # {}
        THEN Max(ends(Max(dots)))
        ELSE 0

\* re.search(email_pattern, text): the leftmost match, or None
_extract_email(text) ==
    LET starts == {i \in 1..Len(text) : EmailMatchEnd(text, i) > 0}
    IN  IF starts = {}
        THEN None
        ELSE SubSeq(text, Min(starts), EmailMatchEnd(text, Min(starts)))

\* The end of the match of  [A-Z][a-z]+(?:\s+[A-Z][a-z]+)?  at a, 0 when there
\* is none. Under re.IGNORECASE both classes are the letters: a word is two or
\* more letters, capitalised or not.
NameEnd(s, a) ==
    LET b == RunEnd(s, a, Letters)
        c == RunEnd(s, b + 1, Whitespace)
        e == RunEnd(s, c + 1, Letters)
    IN  IF b < a + 1 THEN 0
        ELSE IF c >= b + 1 /\ e >= c + 2 THEN e
        ELSE b

\* Where the captured group starts when the introduction w matches at i
IntroNameStart(s, i, w) ==
    RunEnd(s, i + Len(w), Whitespace) + 1

\* (?:my name is|I'm|call me|this is)\s+(...) matches at i by its alternative w
IntroMatches(s, i, w) ==
    /\ i + Len(w) - 1 <= Len(s)
    /\ lower(SubSeq(s, i, i + Len(w) - 1)) = w
    /\ IntroNameStart(s, i, w) > i + Len(w)
    /\ NameEnd(s, IntroNameStart(s, i, w)) > 0

\* The two patterns in their order, each by re.search; group(1).strip() strips
\* nothing, the group starting and ending with a letter. Messages are one line,
\* so $ is the end of the text.
_extract_name(text) ==
    LET hits == {h \in (1..Len(text)) \X (1..Len(NAME_INTROS)) :
                    IntroMatches(text, h[1], NAME_INTROS[h[2]])}
        i == Min({h[1] : h \in hits})
        k == Min({h[2] : h \in {g \in hits : g[1] = i}})
        a == IntroNameStart(text, i, NAME_INTROS[k])
    IN  IF hits # {} THEN SubSeq(text, a, NameEnd(text, a))
        ELSE IF Len(text) > 0 /\ NameEnd(text, 1) = Len(text) THEN text
        ELSE None

-----------------------------------------------------------------------------
(* The inputs the operations are called with *)

\* "My name is Alex" -- yields a name, no e-mail
MSG_NAME ==
    <<"M","y"," ","n","a","m","e"," ","i","s"," ","A","l","e","x">>

\* "alex@example.com, interested in AR" -- yields an e-mail, no name
MSG_EMAIL ==
    <<"a","l","e","x","@","e","x","a","m","p","l","e",".","c","o","m",",",
      " ","i","n","t","e","r","e","s","t","e","d"," ","i","n"," ","A","R">>

\* "I'm Bo, call bo@x.io" -- a name, an e-mail and a contact word
MSG_CONTACT ==
    <<"I","'","m"," ","B","o",","," ","c","a","l","l"," ","b","o","@","x",
      ".","i","o">>

\* "What is AR?" -- yields nothing
MSG_PLAIN ==
    <<"W","h","a","t"," ","i","s"," ","A","R","?">>

\* "project?" -- an interest keyword, in no more than 10 characters
MSG_KEYWORD ==
    <<"p","r","o","j","e","c","t","?">>

\* "I need help with AR" -- an interest keyword, no name and no e-mail
MSG_INTEREST ==
    <<"I"," ","n","e","e","d"," ","h","e","l","p"," ","w","i","t","h"," ",
      "A","R">>

\* "bo@x.io" -- an e-mail and nothing else
MSG_ONLY_EMAIL ==
    <<"b","o","@","x",".","i","o">>

\* "Sam"
ARG_NAME ==
    <<"S","a","m">>

\* "sam@y.org"
ARG_EMAIL ==
    <<"s","a","m","@","y",".","o","r","g">>

\* "AR demo"
ARG_MESSAGE ==
    <<"A","R"," ","d","e","m","o">>

\* "old@z.net"
OLD_EMAIL ==
    <<"o","l","d","@","z",".","n","e","t">>

\* "Happy to help!"
TEXT_REPLY ==
    <<"H","a","p","p","y"," ","t","o"," ","h","e","l","p","!">>

\* "I used record_feedback"
TEXT_NAMING_TOOL ==
    <<"I"," ","u","s","e","d"," ","r","e","c","o","r","d","_","f","e","e",
      "d","b","a","c","k">>

\* "get_pricing"
FN_UNDECLARED ==
    <<"g","e","t","_","p","r","i","c","i","n","g">>

USER_IDS ==
    {"user_001", "default"}

\* business_agent.py:362: the one user_id chat_interface passes
CHAT_USER_ID ==
    "user_001"

\* The browser conversations gr.ChatInterface serves
CONVERSATIONS ==
    {"conversation_1", "conversation_2"}

MESSAGES ==
    {MSG_NAME, MSG_EMAIL, MSG_CONTACT, MSG_PLAIN}

\* Those and the messages that differ in what the update of lines 250-256 takes
\* from them
ALL_MESSAGES ==
    MESSAGES \cup {MSG_KEYWORD, MSG_INTEREST, MSG_ONLY_EMAIL}

\* A turn of history as process_message unpacks it: [user_msg, bot_msg]
PairTurn(user_msg, bot_msg) ==
    [type |-> "list", items |-> <<user_msg, bot_msg>>]

\* A turn as gr.ChatInterface(type="messages") hands it over: a dict
MessageTurn(keys, role, content) ==
    [type |-> "dict", keys |-> keys, role |-> role, content |-> content]

NO_HISTORY ==
    <<>>

PAIR_HISTORY ==
    <<PairTurn(MSG_PLAIN, TEXT_REPLY)>>

\* The keys of a message dict, each a str
KEY_ROLE ==
    <<"r","o","l","e">>

KEY_CONTENT ==
    <<"c","o","n","t","e","n","t">>

KEY_METADATA ==
    <<"m","e","t","a","d","a","t","a">>

KEY_OPTIONS ==
    <<"o","p","t","i","o","n","s">>

MESSAGES_HISTORY ==
    <<MessageTurn(<<KEY_ROLE, KEY_METADATA, KEY_CONTENT, KEY_OPTIONS>>, "user", MSG_PLAIN),
      MessageTurn(<<KEY_ROLE, KEY_METADATA, KEY_CONTENT, KEY_OPTIONS>>, "assistant", TEXT_REPLY)>>

\* The same conversation as dicts that carry the two keys role and content only
ROLE_CONTENT_HISTORY ==
    <<MessageTurn(<<KEY_ROLE, KEY_CONTENT>>, "user", MSG_PLAIN),
      MessageTurn(<<KEY_ROLE, KEY_CONTENT>>, "assistant", TEXT_REPLY)>>

TextPart(text) ==
    [kind |-> "text", text |-> text]

CallPart(name, args) ==
    [kind |-> "function_call", name |-> name, args |-> args]

\* What model.generate_content hands back: it raises, or it returns a response
\* whose candidates[0].content.parts is  parts
GENERATE_RAISES ==
    [kind |-> "raises"]

NO_CANDIDATES ==
    [kind |-> "response", candidates |-> <<>>]

Response(parts) ==
    [kind |-> "response", candidates |-> <<parts>>]

\* The args of a function call are a dict; the empty one is the empty function
NO_ARGS ==
    [k \in {} |-> None]

INTEREST_CALL_ARGS ==
    { NO_ARGS,
      [email |-> ARG_EMAIL],
      [name |-> ARG_NAME, email |-> ARG_EMAIL, message |-> ARG_MESSAGE] }

FEEDBACK_CALL_ARGS ==
    {NO_ARGS, [question |-> ARG_MESSAGE]}

\* The responses without a declared function call
PLAIN_RESPONSES ==
    {NO_CANDIDATES, Response(<<>>), Response(<<TextPart(TEXT_REPLY)>>),
     Response(<<TextPart(TEXT_NAMING_TOOL)>>),
     Response(<<CallPart(FN_UNDECLARED, NO_ARGS)>>)}

INTEREST_RESPONSES ==
    {Response(<<CallPart(FN_RECORD_CUSTOMER_INTEREST, a)>>) : a \in INTEREST_CALL_ARGS}

FEEDBACK_RESPONSES ==
    {Response(<<CallPart(FN_RECORD_FEEDBACK, a)>>) : a \in FEEDBACK_CALL_ARGS}

RESPONSES ==
    {GENERATE_RAISES} \cup PLAIN_RESPONSES \cup INTEREST_RESPONSES
        \cup FEEDBACK_RESPONSES

\* The outcomes of  with open(path, 'w') as f: json.dump(records, f)
WRITES ==
    {"ok", "open_fails", "dump_fails"}

\* What a call meets outside the agent: the history it is handed, what the
\* model answers and how a write to a file ends
Meets(history, response, write) ==
    [history |-> history, response |-> response, write |-> write]

-----------------------------------------------------------------------------
(* The state *)

VARIABLES
    leads,          \* self.leads
    feedback,       \* self.feedback
    pending_leads,  \* self.pending_leads, a dict: user_id -> name, email, message
    leads_file,     \* leads.json
    feedback_file,  \* feedback.json
    now,            \* the clock datetime.now() reads: one tick a call
    trace,          \* history variable: per call, what it was given, did and returned
    threads         \* per thread that runs a recorder: where it is, and its locals

vars ==
    <<leads, feedback, pending_leads, leads_file, feedback_file, now, trace,
      threads>>

\* The agent's fields as one value, as the methods' self
Self ==
    [leads |-> leads, feedback |-> feedback, pending_leads |-> pending_leads,
     leads_file |-> leads_file, feedback_file |-> feedback_file]

-----------------------------------------------------------------------------
(* The pending-lead store *)

\* {'name': None, 'email': None, 'message': None}
EMPTY_PENDING ==
    [name |-> None, email |-> None, message |-> None]

\* dict[key] = value
DictSet(dict, key, value) ==
    [k \in DOMAIN dict \cup {key} |-> IF k = key THEN value ELSE dict[k]]

\* del dict[key]  left out: the dict keeps the key
DictKeep(dict, key) ==
    dict

\* del dict[key]
DictDel(dict, key) ==
    [k \in DOMAIN dict \ {key} |-> dict[k]]

\* args.get(key) that finds no key
ArgsGetNothing(args, key) ==
    None

\* dict.get(key) of the args of a function call
ArgsGet(args, key) ==
    IF key \in DOMAIN args THEN args[key] ELSE None

\* _update_pending_lead without its three  if : the entry is assigned the
\* arguments as they come
_update_pending_lead_replaces(pending, user_id, name, email, message) ==
    DictSet(pending, user_id, [name |-> name, email |-> email, message |-> message])

_update_pending_lead(pending, user_id, name, email, message) ==
    LET created == IF user_id \in DOMAIN pending
                   THEN pending
                   ELSE DictSet(pending, user_id, EMPTY_PENDING)
        entry == created[user_id]
    IN  DictSet(created, user_id,
            [name    |-> IF Truthy(name) THEN name ELSE entry.name,
             email   |-> IF Truthy(email) THEN email ELSE entry.email,
             message |-> IF Truthy(message) THEN message ELSE entry.message])

\* _get_pending_lead falling back on the entry of another user_id
_get_any_pending_lead(pending, user_id) ==
    IF user_id \in DOMAIN pending THEN pending[user_id]
    ELSE IF DOMAIN pending # {} THEN pending[CHOOSE u \in DOMAIN pending : TRUE]
    ELSE EMPTY_PENDING

_get_pending_lead(pending, user_id) ==
    IF user_id \in DOMAIN pending THEN pending[user_id] ELSE EMPTY_PENDING

\* _is_lead_complete testing the e-mail alone
_has_email(pending, user_id) ==
    IF _get_pending_lead(pending, user_id).email # None
    THEN _get_pending_lead(pending, user_id).email ELSE False

\* The value of  lead['email'] is not None and (lead['name'] or lead['message'])
_is_lead_complete(pending, user_id) ==
    LET lead == _get_pending_lead(pending, user_id)
    IN  IF lead.email # None THEN Or(lead.name, lead.message) ELSE False

-----------------------------------------------------------------------------
(* The recorders *)

\* with open(path, 'w') as f: json.dump(records, f, indent=2)
\* open truncates the file before json.dump writes to it
WriteJson(file, records, write) ==
    CASE write = "ok"         -> [status |-> "written", records |-> records]
      [] write = "open_fails" -> file
      [] write = "dump_fails" -> [status |-> "partial", records |-> <<>>]

\* open(path, 'w'): the file is cut to nothing
Truncate(file) ==
    [status |-> "partial", records |-> <<>>]

\* The flush that takes what it wrote for all there is in the file
FlushWhole(file, buffer) ==
    [status |-> "written", records |-> buffer]

\* The flush at the end of  with : the handle writes what json.dump left in its
\* buffer from the start of the file on and cuts nothing off.  Where another
\* handle wrote more in between, the tail of that is left behind what was
\* written and the file is  records  followed by it.
Flush(file, buffer) ==
    IF Len(file.records) > Len(buffer)
    THEN [status |-> "garbled", records |-> buffer]
    ELSE [status |-> "written", records |-> buffer]

ThankYou(final_name, final_message, final_email) ==
    THANKS_1 \o final_name \o THANKS_2 \o final_message \o THANKS_3
        \o final_email \o THANKS_4

Noted(question) ==
    NOTED_1 \o question \o NOTED_2

\* The result is the agent after the call, the value returned (None when the
\* call raised) and what the call came to.
record_customer_interest(self, name, email, message, user_id, env) ==
    LET pending_data == _get_pending_lead(self.pending_leads, user_id)
        final_name == Or(Or(name, pending_data.name), DEFAULT_NAME)
        final_email == Or(email, pending_data.email)
        final_message == Or(Or(message, pending_data.message), DEFAULT_MESSAGE)
        lead_data == [name |-> final_name, email |-> final_email,
                      message |-> final_message, timestamp |-> env.now,
                      status |-> "new", user_id |-> user_id]
        appended == [self EXCEPT !.leads = Append(@, lead_data)]
        saved == [appended EXCEPT
                    !.leads_file = WriteJson(@, appended.leads, env.write)]
        cleared == [saved EXCEPT
                    !.pending_leads = IF user_id \in DOMAIN @
                                      THEN DictDel(@, user_id) ELSE @]
    IN  IF ~Truthy(final_email)
        THEN [self |-> self, ret |-> EMAIL_PROMPT, raised |-> FALSE,
              outcome |-> "asked_for_email"]
        ELSE IF env.write # "ok"
        THEN [self |-> saved, ret |-> None, raised |-> TRUE,
              outcome |-> "write_failed"]
        ELSE [self |-> cleared,
              ret |-> ThankYou(final_name, final_message, final_email),
              raised |-> FALSE, outcome |-> "recorded"]

\* record_feedback assigning the list where it should append to it
record_feedback_latest_only(self, question, env) ==
    LET feedback_data == [question |-> question, timestamp |-> env.now,
                          status |-> "unanswered"]
        assigned == [self EXCEPT !.feedback = <<feedback_data>>]
        saved == [assigned EXCEPT
                    !.feedback_file = WriteJson(@, assigned.feedback, env.write)]
    IN  IF env.write # "ok"
        THEN [self |-> saved, ret |-> None, raised |-> TRUE,
              outcome |-> "write_failed"]
        ELSE [self |-> saved, ret |-> Noted(question), raised |-> FALSE,
              outcome |-> "recorded"]

record_feedback(self, question, env) ==
    LET feedback_data == [question |-> question, timestamp |-> env.now,
                          status |-> "unanswered"]
        appended == [self EXCEPT !.feedback = Append(@, feedback_data)]
        saved == [appended EXCEPT
                    !.feedback_file = WriteJson(@, appended.feedback, env.write)]
    IN  IF env.write # "ok"
        THEN [self |-> saved, ret |-> None, raised |-> TRUE,
              outcome |-> "write_failed"]
        ELSE [self |-> saved, ret |-> Noted(question), raised |-> FALSE,
              outcome |-> "recorded"]

-----------------------------------------------------------------------------
(* process_message *)

\* len(message) > 10
INTEREST_MIN_LEN ==
    10

\* history[-6:]
HISTORY_WINDOW ==
    6

\* What process_message reads off a message
Scan(message) ==
    [email |-> _extract_email(message),
     name |-> _extract_name(message),
     interest_word |-> AnyWordIn(INTEREST_KEYWORDS, message),
     contact_word |-> AnyWordIn(CONTACT_KEYWORDS, message)]

\* Scan, computed once for each message
SCANNED ==
    [m \in ALL_MESSAGES |-> Scan(m)]

\* What  for user_msg, bot_msg in ...  iterates: the items of a list, the keys
\* of a dict
Iterate(turn) ==
    IF turn.type = "list" THEN turn.items ELSE turn.keys

\* history[-6:]
LastTurns(history) ==
    SubSeq(history, Max({1, Len(history) - HISTORY_WINDOW + 1}), Len(history))

\* Every turn of history[-6:] unpacks into user_msg, bot_msg; a ValueError is
\* raised at the first one that does not.
Unpacks(history) ==
    \A i \in DOMAIN LastTurns(history) : Len(Iterate(LastTurns(history)[i])) = 2

\* One entry of the conversation handed to the model
Entry(role, text) ==
    [role |-> role, text |-> text]

\* What the loop over history[-6:] extends the conversation with: of each turn
\* the first unpacked value as the user's text and the second as the model's
HistoryEntries(history) ==
    [k \in 1..(2 * Len(LastTurns(history))) |->
        IF k % 2 = 1
        THEN Entry("user", Iterate(LastTurns(history)[(k + 1) \div 2])[1])
        ELSE Entry("model", Iterate(LastTurns(history)[k \div 2])[2])]

\* response.candidates[0].content.parts, empty without a candidate
Parts(response) ==
    IF response.candidates = <<>> THEN <<>> ELSE response.candidates[1]

\* any(fc in str(response) for fc in [...]): str(response) prints the parts,
\* a function call by its name and a text part by its text
MentionsFunction(response) ==
    \E i \in DOMAIN Parts(response) : \E fc \in FUNCTION_NAMES :
        LET part == Parts(response)[i]
        IN  Contains(IF part.kind = "function_call" THEN part.name ELSE part.text, fc)

\* response.text raises ValueError when there is no candidate, no part, or a
\* part that is not text
TextRaises(response) ==
    \/ Parts(response) = <<>>
    \/ \E i \in DOMAIN Parts(response) : Parts(response)[i].kind # "text"

RECURSIVE JoinTexts(_)
JoinTexts(parts) ==
    IF parts = <<>> THEN <<>> ELSE Head(parts).text \o JoinTexts(Tail(parts))

\* The entries of  calls : the calls a call made on the store, the model and the
\* recorders, in their order
UpdateCall(user_id, name, email, message) ==
    [call |-> "_update_pending_lead", user_id |-> user_id, name |-> name,
     email |-> email, message |-> message]

GenerateCall ==
    [call |-> "generate_content"]

InterestCall(user_id, name, email, message, outcome) ==
    [call |-> "record_customer_interest", user_id |-> user_id, name |-> name,
     email |-> email, message |-> message, outcome |-> outcome]

FeedbackCall(question, outcome) ==
    [call |-> "record_feedback", question |-> question, outcome |-> outcome]

\* An except clause that also drops the pending leads
ApologizeAndReset(self, calls) ==
    [self |-> [self EXCEPT !.pending_leads = [u \in {} |-> EMPTY_PENDING]],
     ret |-> APOLOGY, raised |-> FALSE, calls |-> calls]

\* except Exception: return the apology
Apologize(self, calls) ==
    [self |-> self, ret |-> APOLOGY, raised |-> FALSE, calls |-> calls]

\* The result of a recorder without the try around it: what it raises goes on
ReplyUncaught(r, calls) ==
    [self |-> r.self, ret |-> r.ret, raised |-> r.raised, calls |-> calls]

\* The result of a recorder as the reply of process_message
Reply(r, calls) ==
    IF r.raised THEN Apologize(r.self, calls)
    ELSE [self |-> r.self, ret |-> r.ret, raised |-> FALSE, calls |-> calls]

\* The update of lines 250-256 without its name argument
CapturedWithoutName(message, scan) ==
    [name |-> None,
     email |-> scan.email,
     message |-> IF Len(message) > INTEREST_MIN_LEN /\ ~Truthy(scan.email)
                 THEN message ELSE None,
     updates |-> \/ Truthy(scan.name)
                 \/ Truthy(scan.email)
                 \/ scan.interest_word]

\* Lines 246-256: what the message yields for the pending lead, scan being
\* what was read off the message
Captured(message, scan) ==
    [name |-> scan.name,
     email |-> scan.email,
     message |-> IF Len(message) > INTEREST_MIN_LEN /\ ~Truthy(scan.email)
                 THEN message ELSE None,
     updates |-> \/ Truthy(scan.name)
                 \/ Truthy(scan.email)
                 \/ scan.interest_word]

AfterCapture(self, user_id, captured) ==
    IF captured.updates
    THEN [self EXCEPT !.pending_leads =
            _update_pending_lead(@, user_id, captured.name, captured.email,
                                 captured.message)]
    ELSE self

CaptureCalls(user_id, captured) ==
    IF captured.updates
    THEN <<UpdateCall(user_id, captured.name, captured.email, captured.message)>>
    ELSE <<>>

\* Lines 308-315: the model called record_customer_interest
DispatchInterest(updated, user_id, args, env, calls) ==
    LET r == record_customer_interest(updated, ArgsGet(args, "name"),
                ArgsGet(args, "email"), ArgsGet(args, "message"), user_id, env)
    IN  Reply(r, Append(calls, InterestCall(user_id, ArgsGet(args, "name"),
                ArgsGet(args, "email"), ArgsGet(args, "message"), r.outcome)))

\* The dispatch to record_feedback that records the question a second time
DispatchFeedbackTwice(updated, question, env, calls) ==
    LET first == record_feedback(updated, question, env)
        r == record_feedback(first.self, question, env)
    IN  Reply(r, calls \o <<FeedbackCall(question, first.outcome),
                            FeedbackCall(question, r.outcome)>>)

\* Lines 317-321: the model called record_feedback; args.get('question', message)
DispatchFeedback(updated, question, env, calls) ==
    LET r == record_feedback(updated, question, env)
    IN  Reply(r, Append(calls, FeedbackCall(question, r.outcome)))

\* Lines 327-332: the forced capture; pending_lead is the entry read at line 285
\* and pending_lead.get('message', ...) its message, the key being there
ForcedInterest(updated, scan, interest, user_id, env, calls) ==
    LET r == record_customer_interest(updated, scan.name, scan.email, interest,
                                      user_id, env)
    IN  Reply(r, Append(calls, InterestCall(user_id, scan.name, scan.email,
                                            interest, r.outcome)))

\* Lines 296-335: what is done with the response of the model
Answer(updated, message, scan, user_id, response, env, calls) ==
    LET parts == Parts(response)
    IN  IF /\ parts # <<>>
           /\ parts[1].kind = "function_call"
           /\ parts[1].name = FN_RECORD_CUSTOMER_INTEREST
        THEN DispatchInterest(updated, user_id, parts[1].args, env, calls)
        ELSE IF /\ parts # <<>>
                /\ parts[1].kind = "function_call"
                /\ parts[1].name = FN_RECORD_FEEDBACK
        THEN DispatchFeedback(updated,
                IF "question" \in DOMAIN parts[1].args
                THEN parts[1].args.question ELSE message,
                env, calls)
        ELSE IF /\ Truthy(scan.email)
                /\ ~MentionsFunction(response)
                /\ scan.contact_word
        THEN ForcedInterest(updated, scan,
                _get_pending_lead(updated.pending_leads, user_id).message,
                user_id, env, calls)
        ELSE IF TextRaises(response) THEN Apologize(updated, calls)
        ELSE [self |-> updated, ret |-> JoinTexts(parts), raised |-> FALSE,
              calls |-> calls]

\* Lines 244-339 for a message that was scanned: an exception anywhere in the
\* try is the apology.
Try(updated, message, scan, history, user_id, response, env, calls) ==
    IF ~Unpacks(history) THEN Apologize(updated, calls)
    ELSE IF response.kind = "raises"
    THEN Apologize(updated, Append(calls, GenerateCall))
    ELSE Answer(updated, message, scan, user_id, response, env,
                Append(calls, GenerateCall))

Scanned(self, message, scan, history, user_id, response, env) ==
    Try(AfterCapture(self, user_id, Captured(message, scan)), message, scan,
        history, user_id, response, env,
        CaptureCalls(user_id, Captured(message, scan)))

\* The result is the agent after the call, the reply, whether the call raised
\* and the calls it made.
process_message(self, message, history, user_id, response, env) ==
    Scanned(self, message, SCANNED[message], history, user_id, response, env)

\* chat_interface: process_message under the fixed user_id, in a try of its own
chat_interface(self, message, history, response, env) ==
    LET r == process_message(self, message, history, CHAT_USER_ID, response, env)
    IN  IF r.raised
        THEN [self |-> r.self, ret |-> CHAT_APOLOGY, raised |-> FALSE,
              calls |-> r.calls]
        ELSE r

\* The clock ticks once a call; a day has this many ticks
TICKS_PER_DAY ==
    8

\* datetime.fromisoformat(timestamp).date()
Date(timestamp) ==
    timestamp \div TICKS_PER_DAY

\* get_stats: the counts of the three collections, and of the leads of today
get_stats(self, env) ==
    [total_leads |-> Len(self.leads),
     total_feedback |-> Len(self.feedback),
     pending_leads |-> Cardinality(DOMAIN self.pending_leads),
     new_leads_today |->
        Cardinality({k \in DOMAIN self.leads :
                        Date(self.leads[k].timestamp) = Date(env.now)})]

-----------------------------------------------------------------------------
(* The operations as actions *)

OLD_LEAD ==
    [name |-> DEFAULT_NAME, email |-> OLD_EMAIL, message |-> DEFAULT_MESSAGE,
     timestamp |-> 0, status |-> "new", user_id |-> "default"]

\* The threads of the process that run a recorder at the same time
THREADS ==
    {"thread_1", "thread_2"}

\* A thread that has not been given its call
IDLE ==
    [pc |-> "idle"]

\* __init__ with _load_existing_data: leads.json holds the lead an earlier run
\* wrote, feedback.json is missing
Init ==
    /\ leads_file = [status |-> "written", records |-> <<OLD_LEAD>>]
    /\ feedback_file = [status |-> "missing", records |-> <<>>]
    /\ leads = leads_file.records
    /\ feedback = feedback_file.records
    /\ pending_leads = [u \in {} |-> EMPTY_PENDING]
    /\ now = 1
    /\ trace = <<>>
    /\ threads = [t \in THREADS |-> IDLE]

Env(write) ==
    [now |-> now, write |-> write]

\* The response of a call that does not ask the model
NOT_ASKED ==
    [kind |-> "not_asked"]

\* What a direct call of the store or of a recorder meets: only the write
Direct(write) ==
    Meets(NO_HISTORY, NOT_ASKED, write)

\* A call returns: the agent is as the call left it, the call is logged with
\* what it was given and what it met, and the clock ticks
Return(op, user_id, by, message, given, r, calls) ==
    /\ leads' = r.self.leads
    /\ feedback' = r.self.feedback
    /\ pending_leads' = r.self.pending_leads
    /\ leads_file' = r.self.leads_file
    /\ feedback_file' = r.self.feedback_file
    /\ now' = now + 1
    /\ trace' = Append(trace,
            [op |-> op, user_id |-> user_id, by |-> by, message |-> message,
             given |-> given, ret |-> r.ret, raised |-> r.raised,
             calls |-> calls])
    /\ UNCHANGED threads

UpdatePendingLead(user_id, name, email, message) ==
    Return("_update_pending_lead", user_id, user_id, None, Direct("ok"),
        [self |-> [Self EXCEPT !.pending_leads =
                    _update_pending_lead(@, user_id, name, email, message)],
         ret |-> None, raised |-> FALSE],
        <<UpdateCall(user_id, name, email, message)>>)

RecordCustomerInterest(name, email, message, user_id, write) ==
    LET r == record_customer_interest(Self, name, email, message, user_id, Env(write))
    IN  Return("record_customer_interest", user_id, user_id, None, Direct(write), r,
            <<InterestCall(user_id, name, email, message, r.outcome)>>)

RecordFeedback(question, write) ==
    LET r == record_feedback(Self, question, Env(write))
    IN  Return("record_feedback", "", "", None, Direct(write), r,
            <<FeedbackCall(question, r.outcome)>>)

ProcessMessage(message, user_id, meets) ==
    LET r == process_message(Self, message, meets.history, user_id,
                             meets.response, Env(meets.write))
    IN  Return("process_message", user_id, user_id, message, meets, r, r.calls)

ChatInterface(conversation, message, meets) ==
    LET r == chat_interface(Self, message, meets.history, meets.response,
                            Env(meets.write))
    IN  Return("chat_interface", CHAT_USER_ID, conversation, message, meets, r,
               r.calls)

-----------------------------------------------------------------------------
(* Spec: the store and the recorders called directly, and process_message *)

\* The number of calls a behaviour of Spec makes
MaxCalls ==
    2

\* name, email, message as _update_pending_lead is called with them
UPDATE_ARGS ==
    {<<None, None, None>>, <<<<>>, <<>>, <<>>>>, <<ARG_NAME, None, None>>,
     <<None, ARG_EMAIL, None>>, <<None, OLD_EMAIL, ARG_MESSAGE>>,
     <<ARG_NAME, ARG_EMAIL, ARG_MESSAGE>>}

\* name, email, message as record_customer_interest is called with them
FINALIZE_ARGS ==
    {<<None, None, None>>, <<None, <<>>, None>>, <<None, ARG_EMAIL, None>>,
     <<ARG_NAME, ARG_EMAIL, ARG_MESSAGE>>}

MEETS ==
    {Meets(NO_HISTORY, GENERATE_RAISES, "ok"),
     Meets(NO_HISTORY, Response(<<TextPart(TEXT_REPLY)>>), "ok"),
     Meets(NO_HISTORY, Response(<<CallPart(FN_RECORD_FEEDBACK, NO_ARGS)>>), "ok"),
     Meets(NO_HISTORY, Response(<<CallPart(FN_RECORD_CUSTOMER_INTEREST, NO_ARGS)>>), "ok"),
     Meets(NO_HISTORY,
           Response(<<CallPart(FN_RECORD_CUSTOMER_INTEREST, [email |-> ARG_EMAIL])>>),
           "ok"),
     Meets(NO_HISTORY,
           Response(<<CallPart(FN_RECORD_CUSTOMER_INTEREST, [email |-> ARG_EMAIL])>>),
           "dump_fails")}

Update ==
    /\ now <= MaxCalls
    /\ \E u \in USER_IDS, a \in UPDATE_ARGS : UpdatePendingLead(u, a[1], a[2], a[3])

Finalize ==
    /\ now <= MaxCalls
    /\ \E u \in USER_IDS, a \in FINALIZE_ARGS, w \in WRITES :
            RecordCustomerInterest(a[1], a[2], a[3], u, w)

Feedback ==
    /\ now <= MaxCalls
    /\ \E w \in WRITES : RecordFeedback(ARG_MESSAGE, w)

Message ==
    /\ now <= MaxCalls
    /\ \E u \in USER_IDS, msg \in MESSAGES, meets \in MEETS :
            ProcessMessage(msg, u, meets)

Next ==
    \/ Update
    \/ Finalize
    \/ Feedback
    \/ Message

Spec ==
    Init /\ [][Next]_vars

-----------------------------------------------------------------------------
(* SpecSession: longer runs of the store, the recorders and process_message  *)
(* on the two messages of a dialogue                                         *)

\* The number of calls a behaviour of SpecSession makes
MaxSteps ==
    3

SESSION_UPDATE_ARGS ==
    {<<<<>>, <<>>, <<>>>>, <<ARG_NAME, None, None>>,
     <<None, OLD_EMAIL, ARG_MESSAGE>>, <<ARG_NAME, ARG_EMAIL, ARG_MESSAGE>>}

SESSION_FINALIZE_ARGS ==
    {<<None, None, None>>, <<None, ARG_EMAIL, None>>}

SESSION_MEETS ==
    {Meets(NO_HISTORY, GENERATE_RAISES, "ok"),
     Meets(NO_HISTORY, Response(<<TextPart(TEXT_REPLY)>>), "ok"),
     Meets(NO_HISTORY, Response(<<CallPart(FN_RECORD_CUSTOMER_INTEREST, NO_ARGS)>>), "ok")}

SessionUpdate ==
    /\ now <= MaxSteps
    /\ \E u \in USER_IDS, a \in SESSION_UPDATE_ARGS :
            UpdatePendingLead(u, a[1], a[2], a[3])

SessionFinalize ==
    /\ now <= MaxSteps
    /\ \E u \in USER_IDS, a \in SESSION_FINALIZE_ARGS, w \in {"ok", "dump_fails"} :
            RecordCustomerInterest(a[1], a[2], a[3], u, w)

SessionFeedback ==
    /\ now <= MaxSteps
    /\ RecordFeedback(ARG_MESSAGE, "ok")

SessionMessage ==
    /\ now <= MaxSteps
    /\ \E u \in USER_IDS, msg \in {MSG_NAME, MSG_EMAIL}, meets \in SESSION_MEETS :
            ProcessMessage(msg, u, meets)

SessionNext ==
    \/ SessionUpdate
    \/ SessionFinalize
    \/ SessionFeedback
    \/ SessionMessage

SpecSession ==
    Init /\ [][SessionNext]_vars

-----------------------------------------------------------------------------
(* SpecMessage: process_message under every answer of the model, with the    *)
(* histories it may be handed and the ends a write may take                  *)

\* The number of messages a behaviour of SpecMessage processes
MaxMessages ==
    2

\* business_agent.py:242: the user_id process_message takes when given none
DEFAULT_USER_ID ==
    "default"

\* Every answer of the model after a history of pairs; a write that fails
\* where a recorder may run, on a function call of the model and on the text
\* reply that leaves room for the forced capture; and a text reply after no
\* history and after each history of dicts
ALL_MEETS ==
    {Meets(PAIR_HISTORY, r, "ok") : r \in RESPONSES}
        \cup {Meets(PAIR_HISTORY, r, w) :
                r \in INTEREST_RESPONSES \cup FEEDBACK_RESPONSES
                            \cup {Response(<<TextPart(TEXT_REPLY)>>)},
                w \in WRITES \ {"ok"}}
        \cup {Meets(h, Response(<<TextPart(TEXT_REPLY)>>), "ok") :
                h \in {NO_HISTORY, MESSAGES_HISTORY, ROLE_CONTENT_HISTORY}}

AnyMessage ==
    /\ now <= MaxMessages
    /\ \E msg \in MESSAGES, meets \in ALL_MEETS :
            ProcessMessage(msg, DEFAULT_USER_ID, meets)

SpecMessage ==
    Init /\ [][AnyMessage]_vars

-----------------------------------------------------------------------------
(* SpecChat: two browser conversations served by chat_interface *)

\* The number of messages a behaviour of SpecChat serves
MaxChats ==
    3

Chat ==
    /\ now <= MaxChats
    /\ \E c \in CONVERSATIONS, msg \in MESSAGES, meets \in MEETS :
            ChatInterface(c, msg, meets)

SpecChat ==
    Init /\ [][Chat]_vars

-----------------------------------------------------------------------------
(* SpecCapture: process_message over the messages that differ in what the   *)
(* update of lines 250-256 takes from them                                   *)

\* The number of messages a behaviour of SpecCapture processes
MaxCaptures ==
    2

\* The model answers in text, or it calls record_customer_interest and leaves
\* the fields to the pending entry
CAPTURE_MEETS ==
    {Meets(PAIR_HISTORY, Response(<<TextPart(TEXT_REPLY)>>), "ok"),
     Meets(PAIR_HISTORY,
           Response(<<CallPart(FN_RECORD_CUSTOMER_INTEREST, NO_ARGS)>>), "ok")}

Capture ==
    /\ now <= MaxCaptures
    /\ \E msg \in ALL_MESSAGES, user_id \in USER_IDS, meets \in CAPTURE_MEETS :
            ProcessMessage(msg, user_id, meets)

SpecCapture ==
    Init /\ [][Capture]_vars

-----------------------------------------------------------------------------
(* SpecThreads: two threads of the process, each running one call of a       *)
(* recorder, a statement at a time                                           *)

\* The calls a thread may be given
THREAD_CALLS ==
    {[op |-> "record_customer_interest", user_id |-> "default", name |-> None,
      email |-> ARG_EMAIL, message |-> None],
     [op |-> "record_customer_interest", user_id |-> "user_001",
      name |-> ARG_NAME, email |-> ARG_EMAIL, message |-> ARG_MESSAGE],
     [op |-> "record_customer_interest", user_id |-> "default", name |-> None,
      email |-> None, message |-> None],
     [op |-> "record_feedback", user_id |-> "", name |-> None, email |-> None,
      message |-> ARG_MESSAGE],
     [op |-> "record_feedback", user_id |-> "", name |-> None, email |-> None,
      message |-> MSG_PLAIN]}

\* The list of the recorder op
ListOf(op) ==
    IF op = "record_customer_interest" THEN leads ELSE feedback

\* Lines 150-166 and 189-193: the thread is given its call, reads the clock and
\* builds its record; record_customer_interest without an e-mail returns
ThreadStart(t, call) ==
    LET r == IF call.op = "record_customer_interest"
             THEN record_customer_interest(Self, call.name, call.email,
                                           call.message, call.user_id, Env("ok"))
             ELSE record_feedback(Self, call.message, Env("ok"))
        list == IF call.op = "record_customer_interest"
                THEN r.self.leads ELSE r.self.feedback
    IN  /\ threads[t].pc = "idle"
        /\ threads' = [threads EXCEPT ![t] =
                [pc |-> IF r.outcome = "asked_for_email" THEN "returns"
                        ELSE "appends",
                 call |-> call, outcome |-> r.outcome, ret |-> r.ret,
                 record |-> IF r.outcome = "asked_for_email" THEN None
                            ELSE list[Len(list)],
                 buffer |-> <<>>]]
        /\ now' = now + 1
        /\ UNCHANGED <<leads, feedback, pending_leads, leads_file,
                       feedback_file, trace>>

\* Lines 168 and 195: list.append(record)
ThreadAppend(t) ==
    /\ threads[t].pc = "appends"
    /\ IF threads[t].call.op = "record_customer_interest"
       THEN leads' = Append(leads, threads[t].record) /\ UNCHANGED feedback
       ELSE feedback' = Append(feedback, threads[t].record) /\ UNCHANGED leads
    /\ threads' = [threads EXCEPT ![t].pc = "opens"]
    /\ UNCHANGED <<pending_leads, leads_file, feedback_file, now, trace>>

\* Lines 178 and 203: open(path, 'w')
ThreadOpen(t) ==
    /\ threads[t].pc = "opens"
    /\ IF threads[t].call.op = "record_customer_interest"
       THEN leads_file' = Truncate(leads_file) /\ UNCHANGED feedback_file
       ELSE feedback_file' = Truncate(feedback_file) /\ UNCHANGED leads_file
    /\ threads' = [threads EXCEPT ![t].pc = "dumps"]
    /\ UNCHANGED <<leads, feedback, pending_leads, now, trace>>

\* Lines 179 and 204: json.dump(list, f) encodes the list as it is and leaves
\* the text in the buffer of f
ThreadDump(t) ==
    /\ threads[t].pc = "dumps"
    /\ threads' = [threads EXCEPT ![t].pc = "closes",
                                  ![t].buffer = ListOf(threads[t].call.op)]
    /\ UNCHANGED <<leads, feedback, pending_leads, leads_file, feedback_file,
                   now, trace>>

\* The end of  with : the buffer goes to the file
ThreadClose(t) ==
    /\ threads[t].pc = "closes"
    /\ IF threads[t].call.op = "record_customer_interest"
       THEN /\ leads_file' = Flush(leads_file, threads[t].buffer)
            /\ UNCHANGED feedback_file
       ELSE /\ feedback_file' = Flush(feedback_file, threads[t].buffer)
            /\ UNCHANGED leads_file
    /\ threads' = [threads EXCEPT ![t].pc = "returns"]
    /\ UNCHANGED <<leads, feedback, pending_leads, now, trace>>

\* Lines 182-185 and 206: the pending entry of a recorded lead is deleted, and
\* the call returns
ThreadReturn(t) ==
    LET call == threads[t].call
    IN  /\ threads[t].pc = "returns"
        /\ pending_leads' =
                IF /\ call.op = "record_customer_interest"
                   /\ threads[t].outcome = "recorded"
                   /\ call.user_id \in DOMAIN pending_leads
                THEN DictDel(pending_leads, call.user_id)
                ELSE pending_leads
        /\ trace' = Append(trace,
                [op |-> call.op, user_id |-> call.user_id, by |-> t,
                 message |-> None, given |-> Direct("ok"),
                 ret |-> threads[t].ret, raised |-> FALSE,
                 calls |-> <<IF call.op = "record_customer_interest"
                             THEN InterestCall(call.user_id, call.name,
                                    call.email, call.message, threads[t].outcome)
                             ELSE FeedbackCall(call.message,
                                               threads[t].outcome)>>])
        /\ threads' = [threads EXCEPT ![t].pc = "done"]
        /\ UNCHANGED <<leads, feedback, leads_file, feedback_file, now>>

Start ==
    \E t \in THREADS, call \in THREAD_CALLS : ThreadStart(t, call)

AppendRecord ==
    \E t \in THREADS : ThreadAppend(t)

OpenFile ==
    \E t \in THREADS : ThreadOpen(t)

DumpList ==
    \E t \in THREADS : ThreadDump(t)

CloseFile ==
    \E t \in THREADS : ThreadClose(t)

ReturnCall ==
    \E t \in THREADS : ThreadReturn(t)

ThreadsNext ==
    \/ Start
    \/ AppendRecord
    \/ OpenFile
    \/ DumpList
    \/ CloseFile
    \/ ReturnCall

SpecThreads ==
    Init /\ [][ThreadsNext]_vars

-----------------------------------------------------------------------------
(* The properties.  They are stated on the state and on  trace , in terms of *)
(* what a call was given and what the agent holds before and after it.       *)

\* A value that is present: neither None nor the empty string
Present(v) ==
    v # None /\ v # <<>>

FIELDS ==
    {"name", "email", "message"}

\* The field f of the pending entry of user_id, None where there is no entry
EntryField(pending, user_id, f) ==
    IF user_id \in DOMAIN pending THEN pending[user_id][f] ELSE None

\* The call a step makes
Called ==
    trace'[Len(trace')]

\* new is old, or old with one record appended at the end
AppendsOne(old, new) ==
    Len(new) = Len(old) + 1 /\ SubSeq(new, 1, Len(old)) = old

\* The calls of the first n calls of the trace, in their order
RECURSIVE CallsUpTo(_)
CallsUpTo(n) ==
    IF n = 0 THEN <<>> ELSE CallsUpTo(n - 1) \o trace[n].calls

\* Whether the call trace[i] ran record_customer_interest to the given outcome
Finalized(i, outcome) ==
    \E k \in DOMAIN trace[i].calls :
        /\ trace[i].calls[k].call = "record_customer_interest"
        /\ trace[i].calls[k].outcome = outcome

\* C1: a call of record_customer_interest whose resolved e-mail (the argument,
\* else the e-mail of the pending entry of user_id) is present and whose write
\* succeeds appends exactly one record to leads, writes to leads.json the
\* records held before followed by the new one, and leaves no pending entry
\* for user_id.
C1_FinalizeAppendsAndClears ==
    [][(/\ Called.op = "record_customer_interest"
        /\ \/ Present(Called.calls[1].email)
           \/ Present(EntryField(pending_leads, Called.user_id, "email"))
        /\ Called.given.write = "ok")
       => /\ AppendsOne(leads, leads')
          /\ leads'[Len(leads')].user_id = Called.user_id
          /\ leads'[Len(leads')].email =
                IF Present(Called.calls[1].email) THEN Called.calls[1].email
                ELSE EntryField(pending_leads, Called.user_id, "email")
          /\ leads_file' = [status |-> "written",
                            records |-> Append(leads, leads'[Len(leads')])]
          /\ Called.user_id \notin DOMAIN pending_leads']_vars

\* C1 happens: an update stored an e-mail, and the finalize that followed was
\* given none and wrote the lead
C1_Witness ==
    /\ Len(trace) >= 2
    /\ trace[Len(trace) - 1].op = "_update_pending_lead"
    /\ Present(trace[Len(trace) - 1].calls[1].email)
    /\ trace[Len(trace)].op = "record_customer_interest"
    /\ trace[Len(trace)].user_id = trace[Len(trace) - 1].user_id
    /\ ~Present(trace[Len(trace)].calls[1].email)
    /\ trace[Len(trace)].given.write = "ok"
    /\ Len(leads) = 2
    /\ leads[2].email = trace[Len(trace) - 1].calls[1].email
    /\ leads_file.records = leads
    /\ trace[Len(trace)].user_id \notin DOMAIN pending_leads

\* C2: a call of record_customer_interest with an absent e-mail argument (None
\* or the empty string), while the pending entry of user_id has no e-mail,
\* returns the e-mail prompt, leaves leads unchanged, does not write leads.json
\* and leaves the pending entry of user_id, if any, as it was.
C2_AbsentEmailAsksAndKeeps ==
    [][(/\ Called.op = "record_customer_interest"
        /\ ~Present(Called.calls[1].email)
        /\ ~Present(EntryField(pending_leads, Called.user_id, "email")))
       => /\ Called.ret = EMAIL_PROMPT
          /\ ~Called.raised
          /\ leads' = leads
          /\ leads_file' = leads_file
          /\ (Called.user_id \in DOMAIN pending_leads')
                = (Called.user_id \in DOMAIN pending_leads)
          /\ \A f \in FIELDS : EntryField(pending_leads', Called.user_id, f)
                                = EntryField(pending_leads, Called.user_id, f)]_vars

\* C2 happens: the entry holds a name and no e-mail, the finalize was given the
\* empty string, with a write that would have failed
C2_Witness ==
    /\ Len(trace) >= 2
    /\ trace[Len(trace)].op = "record_customer_interest"
    /\ trace[Len(trace)].calls[1].email = <<>>
    /\ trace[Len(trace)].given.write = "dump_fails"
    /\ trace[Len(trace)].ret = EMAIL_PROMPT
    /\ trace[Len(trace)].user_id \in DOMAIN pending_leads
    /\ Present(pending_leads[trace[Len(trace)].user_id].name)
    /\ ~Present(pending_leads[trace[Len(trace)].user_id].email)
    /\ leads = <<OLD_LEAD>>

\* "Alex", as it stands in MSG_NAME
NAME_ALEX ==
    <<"A","l","e","x">>

\* "alex@example.com", as it stands in MSG_EMAIL
EMAIL_ALEX ==
    <<"a","l","e","x","@","e","x","a","m","p","l","e",".","c","o","m">>

\* The calls i and i + 1 are process_message on "My name is Alex" and then on
\* "alex@example.com, interested in AR", for one user_id
Dialogue(i) ==
    /\ i >= 1
    /\ i + 1 <= Len(trace)
    /\ trace[i].op = "process_message"
    /\ trace[i + 1].op = "process_message"
    /\ trace[i].user_id = trace[i + 1].user_id
    /\ trace[i].message = MSG_NAME
    /\ trace[i + 1].message = MSG_EMAIL

\* After the dialogue the pending entry is complete, with the name and the
\* e-mail of the two messages
DialogueAccumulated(i) ==
    /\ trace[i].user_id \in DOMAIN pending_leads
    /\ pending_leads[trace[i].user_id].name = NAME_ALEX
    /\ pending_leads[trace[i].user_id].email = EMAIL_ALEX
    /\ Truthy(_is_lead_complete(pending_leads, trace[i].user_id))

\* The call i + 2 is record_customer_interest for the user_id of the dialogue
FinalizeFollows(i) ==
    /\ Len(trace) = i + 2
    /\ trace[i + 2].op = "record_customer_interest"
    /\ trace[i + 2].user_id = trace[i].user_id

\* The finalize i + 2 produced a lead with the three fields filled in, name and
\* e-mail from the arguments or else from the dialogue, and removed the entry
DialogueFinalized(i) ==
    /\ Len(leads) >= 2
    /\ leads[Len(leads)].timestamp = i + 2
    /\ leads[Len(leads)].name =
            IF Present(trace[i + 2].calls[1].name) THEN trace[i + 2].calls[1].name
            ELSE NAME_ALEX
    /\ leads[Len(leads)].email =
            IF Present(trace[i + 2].calls[1].email) THEN trace[i + 2].calls[1].email
            ELSE EMAIL_ALEX
    /\ Present(leads[Len(leads)].message)
    /\ trace[i].user_id \notin DOMAIN pending_leads

C4_CompleteIffEmailAndNameOrMessage ==
    \A u \in USER_IDS \cup {"nobody"} :
        (_is_lead_complete(pending_leads, u) \notin {None, False, <<>>})
        = (/\ u \in DOMAIN pending_leads
           /\ Present(pending_leads[u].email)
           /\ \/ Present(pending_leads[u].name)
              \/ Present(pending_leads[u].message))

\* C4 happens: one entry is complete, _is_lead_complete giving its name, and
\* another holds an e-mail alone
C4_Witness ==
    \E u, v \in USER_IDS :
        /\ u \in DOMAIN pending_leads
        /\ v \in DOMAIN pending_leads
        /\ _is_lead_complete(pending_leads, u) = ARG_NAME
        /\ Present(pending_leads[v].email)
        /\ pending_leads[v].name = None
        /\ pending_leads[v].message = None
        /\ _is_lead_complete(pending_leads, v) = None

\* The place in CallsUpTo(Len(trace)) of the last record_customer_interest that
\* cleared the entry of user_id, 0 when there is none
LastClear(calls, user_id) ==
    Max({0} \cup {k \in DOMAIN calls :
                    /\ calls[k].call = "record_customer_interest"
                    /\ calls[k].user_id = user_id
                    /\ calls[k].outcome = "recorded"})

\* The places of the updates of the entry of user_id since that clear
UpdatesSinceClear(calls, user_id) ==
    {k \in DOMAIN calls : /\ k > LastClear(calls, user_id)
                          /\ calls[k].call = "_update_pending_lead"
                          /\ calls[k].user_id = user_id}

\* The most recent present value an update supplied for the field f of user_id
\* since the last clear, None when there is none
MostRecent(calls, user_id, f) ==
    IF \E k \in UpdatesSinceClear(calls, user_id) : Present(calls[k][f])
    THEN calls[Max({k \in UpdatesSinceClear(calls, user_id) : Present(calls[k][f])})][f]
    ELSE None

\* C5: _update_pending_lead overwrites the fields whose argument is non-empty
\* and leaves the others as they were, None in an entry just created. So in
\* every state an entry exists exactly for the user_ids updated since their
\* last clear, and _get_pending_lead returns for each field the most recent
\* non-empty value supplied since then.
C5_MergeUpdate ==
    \A u \in USER_IDS :
        /\ (u \in DOMAIN pending_leads)
                = (UpdatesSinceClear(CallsUpTo(Len(trace)), u) # {})
        /\ \A f \in FIELDS :
                _get_pending_lead(pending_leads, u)[f]
                    = MostRecent(CallsUpTo(Len(trace)), u, f)

\* C5 happens: a name and an e-mail are set, an update carrying another e-mail
\* and no name follows, then one carrying empty strings; the name is kept and
\* the e-mail is the second one
C5_Witness ==
    \E u \in USER_IDS :
        /\ Len(trace) = 3
        /\ \A i \in 1..3 : trace[i].op = "_update_pending_lead" /\ trace[i].user_id = u
        /\ trace[1].calls[1].name = ARG_NAME
        /\ trace[1].calls[1].email = ARG_EMAIL
        /\ trace[2].calls[1].name = None
        /\ trace[2].calls[1].email = OLD_EMAIL
        /\ trace[3].calls[1].email = <<>>
        /\ _get_pending_lead(pending_leads, u).name = ARG_NAME
        /\ _get_pending_lead(pending_leads, u).email = OLD_EMAIL

\* A step removed the pending entry of user_id, or reset one of its fields
RemovedOrReset(user_id) ==
    \/ user_id \notin DOMAIN pending_leads'
    \/ \E f \in FIELDS : /\ Present(pending_leads[user_id][f])
                         /\ ~Present(pending_leads'[user_id][f])

\* C6: a pending entry is removed only by a record_customer_interest step that
\* appended a lead for the same user_id; no step (an update, a
\* record_feedback, a finalize returning the e-mail prompt, a process_message
\* returning text or the apology) removes an entry otherwise or resets a
\* field of an entry to absent.
C6_ClearedOnlyByFinalize ==
    [][\A u \in DOMAIN pending_leads :
        RemovedOrReset(u)
        => /\ u \notin DOMAIN pending_leads'
           /\ Called.user_id = u
           /\ \E k \in DOMAIN Called.calls :
                /\ Called.calls[k].call = "record_customer_interest"
                /\ Called.calls[k].outcome = "recorded"
           /\ AppendsOne(leads, leads')
           /\ leads'[Len(leads')].user_id = u]_vars

\* C6 happens: an entry survived a process_message that ended in the apology
\* and was then removed by the finalize the model called for
C6_Witness ==
    \E u \in USER_IDS :
        /\ Len(trace) = 3
        /\ trace[1].op = "_update_pending_lead"
        /\ trace[1].user_id = u
        /\ Present(trace[1].calls[1].email)
        /\ trace[2].op = "process_message"
        /\ trace[2].user_id = u
        /\ trace[2].ret = APOLOGY
        /\ trace[3].op = "process_message"
        /\ trace[3].user_id = u
        /\ Finalized(3, "recorded")
        /\ u \notin DOMAIN pending_leads
        /\ leads[Len(leads)].user_id = u

\* C7: leads and feedback change only by one record appended at the end, so a
\* record once appended is never modified, removed or moved, and every earlier
\* value of a list is a prefix of every later one.
C7_AppendOnly ==
    [][/\ leads' = leads \/ AppendsOne(leads, leads')
       /\ feedback' = feedback \/ AppendsOne(feedback, feedback')]_vars

\* C7 happens: process_message appended a feedback record, a finalize then
\* appended a lead behind the one of the start
C7_Witness ==
    /\ Len(trace) = 2
    /\ trace[1].op = "process_message"
    /\ trace[2].op = "record_customer_interest"
    /\ Len(feedback) = 1
    /\ feedback[1].timestamp = 1
    /\ Len(leads) = 2
    /\ leads[1] = OLD_LEAD
    /\ leads[2].timestamp = 2

\* A step of the call t failed: the history did not unpack, the model raised,
\* a recorder could not write, or the response held neither a declared
\* function call nor text and no lead was captured from the message
StepFailed(t) ==
    \/ t.given.history = MESSAGES_HISTORY
    \/ t.given.response = GENERATE_RAISES
    \/ \E k \in DOMAIN t.calls :
            /\ t.calls[k].call \in {"record_customer_interest", "record_feedback"}
            /\ t.calls[k].outcome = "write_failed"
    \/ /\ t.given.response \in {NO_CANDIDATES, Response(<<>>),
                                Response(<<CallPart(FN_UNDECLARED, NO_ARGS)>>)}
       /\ \A k \in DOMAIN t.calls : t.calls[k].call # "record_customer_interest"

\* The model answered the call t in plain text, and nothing else was to be done
AnsweredInText(t) ==
    /\ t.given.history # MESSAGES_HISTORY
    /\ t.given.response = Response(<<TextPart(TEXT_REPLY)>>)
    /\ \A k \in DOMAIN t.calls : t.calls[k].call # "record_customer_interest"

\* C8: process_message never raises: whatever the message, the history and the
\* outcome of the model and of the writes, it returns a str, the apology
\* whenever a step failed; it asks the model at most once per message; and a
\* message the model answers in text gets that text, also after a failure.
C8_NeverRaises ==
    \A i \in DOMAIN trace :
        /\ ~trace[i].raised
        /\ trace[i].ret # None
        /\ StepFailed(trace[i]) => trace[i].ret = APOLOGY
        /\ Cardinality({k \in DOMAIN trace[i].calls :
                            trace[i].calls[k].call = "generate_content"}) <= 1
        /\ AnsweredInText(trace[i]) => trace[i].ret = TEXT_REPLY

\* C8 happens: the write of a recorder the model called failed and the reply
\* was the apology; the next message of the user_id was answered in text
C8_Witness ==
    /\ Len(trace) = 2
    /\ trace[1].user_id = trace[2].user_id
    /\ \E k \in DOMAIN trace[1].calls :
            /\ trace[1].calls[k].call = "record_customer_interest"
            /\ trace[1].calls[k].outcome = "write_failed"
    /\ trace[1].ret = APOLOGY
    /\ AnsweredInText(trace[2])
    /\ trace[2].ret = TEXT_REPLY

\* What the conversation c supplied for the field f in its messages among the
\* first n calls: the name and the e-mail they yield, and the messages
Supplied(c, f, n) ==
    {CASE f = "name"    -> SCANNED[trace[i].message].name
       [] f = "email"   -> SCANNED[trace[i].message].email
       [] f = "message" -> trace[i].message :
        i \in {j \in 1..n : trace[j].by = c}}

\* What the record_customer_interest of the call t was passed for the field f
PassedToFinalize(t, f) ==
    {t.calls[k][f] : k \in {j \in DOMAIN t.calls :
                                t.calls[j].call = "record_customer_interest"}}

DEFAULTS ==
    {DEFAULT_NAME, DEFAULT_MESSAGE}

\* C9: the conversations chat_interface serves are partitioned: what one
\* conversation supplied as name, e-mail or interest is never in the pending
\* entry the call of another conversation leaves behind, and never in a lead
\* finalized from another conversation.
C9_ConversationsPartitioned ==
    /\ (trace # <<>> /\ CHAT_USER_ID \in DOMAIN pending_leads)
        => \A f \in FIELDS :
            Present(pending_leads[CHAT_USER_ID][f])
            => pending_leads[CHAT_USER_ID][f]
                    \in Supplied(trace[Len(trace)].by, f, Len(trace))
    /\ \A n \in 2..Len(leads) : \A f \in FIELDS :
            leads[n][f] \in Supplied(trace[leads[n].timestamp].by, f, leads[n].timestamp)
                                \cup PassedToFinalize(trace[leads[n].timestamp], f)
                                \cup DEFAULTS

\* The partition is broken: conversation_1 gave the name Alex, conversation_2
\* gave no name, and the lead finalized from conversation_2 is Alex's
C9_Leak ==
    /\ Len(trace) = 2
    /\ trace[1].by = "conversation_1"
    /\ trace[1].message = MSG_NAME
    /\ trace[2].by = "conversation_2"
    /\ trace[2].message = MSG_PLAIN
    /\ Finalized(2, "recorded")
    /\ leads[2].name = NAME_ALEX
    /\ leads[2].email = ARG_EMAIL

\* C10: a call made for the user_id A leaves the pending entry of every other
\* user_id as it was, and a lead it finalizes takes each field from what the
\* call was given, from what the call stored for A, from the entry of A, or
\* from the defaults: never from the entry of another user_id.
C10_PerUserFrame ==
    [][/\ \A b \in USER_IDS \ {Called.user_id} :
            /\ (b \in DOMAIN pending_leads') = (b \in DOMAIN pending_leads)
            /\ \A f \in FIELDS :
                EntryField(pending_leads', b, f) = EntryField(pending_leads, b, f)
       /\ Len(leads') > Len(leads)
            => /\ leads'[Len(leads')].user_id = Called.user_id
               /\ \A f \in FIELDS :
                    leads'[Len(leads')][f]
                        \in PassedToFinalize(Called, f)
                            \cup {Called.calls[k][f] : k \in {j \in DOMAIN Called.calls :
                                    Called.calls[j].call = "_update_pending_lead"}}
                            \cup {EntryField(pending_leads, Called.user_id, f)}
                            \cup DEFAULTS]_vars

\* C10 happens: one user_id holds an entry with an e-mail; a finalize for the
\* other, given nothing, asked for an e-mail and left that entry in place
C10_Witness ==
    \E a, b \in USER_IDS :
        /\ a # b
        /\ Len(trace) = 2
        /\ trace[1].op = "_update_pending_lead"
        /\ trace[1].user_id = b
        /\ trace[1].calls[1].email = OLD_EMAIL
        /\ trace[2].op = "record_customer_interest"
        /\ trace[2].user_id = a
        /\ trace[2].calls[1].email = None
        /\ trace[2].ret = EMAIL_PROMPT
        /\ leads = <<OLD_LEAD>>
        /\ a \notin DOMAIN pending_leads
        /\ pending_leads[b].email = OLD_EMAIL

\* The history part a conversation carries when it is normalized: of a pair the
\* two texts, of a role-tagged record its content under its role, the
\* assistant's as the model's
RECURSIVE Normalized(_)
Normalized(turns) ==
    IF turns = <<>>
    THEN <<>>
    ELSE LET turn == turns[1]
         IN  (IF turn.type = "list"
              THEN <<[role |-> "user", text |-> turn.items[1]],
                     [role |-> "model", text |-> turn.items[2]]>>
              ELSE <<[role |-> IF turn.role = "assistant" THEN "model" ELSE turn.role,
                      text |-> turn.content]>>)
                \o Normalized(Tail(turns))

\* C11: whenever process_message is given a non-empty history, of pairs or of
\* role-tagged records, the entries it builds from the history are the texts
\* of the last turns, the user's tagged user and the assistant's tagged model,
\* and a text answer of the model is not replaced by the apology.
C11_HistoryNormalized ==
    \A i \in DOMAIN trace :
        (trace[i].op = "process_message" /\ trace[i].given.history # <<>>)
            => /\ Unpacks(trace[i].given.history)
               /\ HistoryEntries(trace[i].given.history)
                    = Normalized(LastTurns(trace[i].given.history))
               /\ (/\ trace[i].given.response = Response(<<TextPart(TEXT_REPLY)>>)
                   /\ trace[i].given.write = "ok")
                    => trace[i].ret # APOLOGY

\* C11 fails: after a history of role-tagged records of four keys a message the
\* model would have answered in text is answered with the apology, and the
\* model was never called
C11_Apologized ==
    \E i \in DOMAIN trace :
        /\ trace[i].op = "process_message"
        /\ trace[i].given.history = MESSAGES_HISTORY
        /\ trace[i].given.response = Response(<<TextPart(TEXT_REPLY)>>)
        /\ trace[i].given.write = "ok"
        /\ trace[i].ret = APOLOGY
        /\ \A k \in DOMAIN trace[i].calls :
                trace[i].calls[k].call # "generate_content"


\* C12: the record a call of record_customer_interest appends holds, for each
\* of name, email and message, the argument when it is present, else the value
\* of the pending entry of user_id when that is present, else the default
\* ("Interested Client", "General inquiry about creative services"; e-mail has
\* none, and without one nothing is appended).
C12_FieldResolutionOrder ==
    [][(Called.op = "record_customer_interest" /\ Len(leads') > Len(leads))
       => /\ AppendsOne(leads, leads')
          /\ \A f \in FIELDS :
                leads'[Len(leads')][f] =
                    IF Present(Called.calls[1][f])
                    THEN Called.calls[1][f]
                    ELSE IF Present(EntryField(pending_leads, Called.user_id, f))
                    THEN EntryField(pending_leads, Called.user_id, f)
                    ELSE CASE f = "name" -> DEFAULT_NAME
                           [] f = "message" -> DEFAULT_MESSAGE
                           [] f = "email" -> None
          /\ Present(leads'[Len(leads')].email)]_vars

\* C12 happens: the entry held another e-mail and a message but no name; the
\* finalize given an e-mail only recorded its own e-mail, the entry's message
\* and the default name
C12_Witness ==
    /\ Len(trace) = 2
    /\ trace[1].op = "_update_pending_lead"
    /\ trace[1].calls[1].email = OLD_EMAIL
    /\ trace[1].calls[1].message = ARG_MESSAGE
    /\ ~Present(trace[1].calls[1].name)
    /\ trace[2].op = "record_customer_interest"
    /\ trace[2].user_id = trace[1].user_id
    /\ trace[2].calls[1].email = ARG_EMAIL
    /\ ~Present(trace[2].calls[1].name)
    /\ ~Present(trace[2].calls[1].message)
    /\ Len(leads) = 2
    /\ leads[2].email = ARG_EMAIL
    /\ leads[2].message = ARG_MESSAGE
    /\ leads[2].name = DEFAULT_NAME

\* The model returned a response for the call t
Responded(t) ==
    /\ t.given.response.kind = "response"
    /\ \E k \in DOMAIN t.calls : t.calls[k].call = "generate_content"

\* The first segment of the response given to t is a call of the function name
FirstCalls(t, name) ==
    /\ t.given.response.kind = "response"
    /\ t.given.response.candidates # <<>>
    /\ t.given.response.candidates[1] # <<>>
    /\ t.given.response.candidates[1][1].kind = "function_call"
    /\ t.given.response.candidates[1][1].name = name

\* The argument key of that call, None when it is missing
FirstArg(t, key) ==
    IF key \in DOMAIN t.given.response.candidates[1][1].args
    THEN t.given.response.candidates[1][1].args[key]
    ELSE None

\* The calls of recorders the call t made
RecorderCalls(t) ==
    {k \in DOMAIN t.calls :
        t.calls[k].call \in {"record_customer_interest", "record_feedback"}}

\* The response given to t is the one text
RepliesText(t, text) ==
    t.given.response = Response(<<TextPart(text)>>)

\* The first two cases of C13, the same in the claim and in its amendment
DispatchesCall(t) ==
    /\ FirstCalls(t, FN_RECORD_CUSTOMER_INTEREST)
        => /\ \E k \in DOMAIN t.calls :
                /\ RecorderCalls(t) = {k}
                /\ t.calls[k].call = "record_customer_interest"
                /\ t.calls[k].user_id = t.user_id
                /\ \A f \in FIELDS : t.calls[k][f] = FirstArg(t, f)
                /\ t.calls[k].outcome = "asked_for_email"
                    => leads' = leads /\ t.ret = EMAIL_PROMPT
                /\ t.calls[k].outcome = "recorded"
                    => /\ AppendsOne(leads, leads')
                       /\ t.ret = THANKS_1 \o leads'[Len(leads')].name
                                    \o THANKS_2 \o leads'[Len(leads')].message
                                    \o THANKS_3 \o leads'[Len(leads')].email
                                    \o THANKS_4
                /\ t.calls[k].outcome = "write_failed"
                    => AppendsOne(leads, leads') /\ t.ret = APOLOGY
           /\ feedback' = feedback
    /\ FirstCalls(t, FN_RECORD_FEEDBACK)
        => /\ \E k \in DOMAIN t.calls :
                /\ RecorderCalls(t) = {k}
                /\ t.calls[k].call = "record_feedback"
                /\ t.calls[k].outcome = "recorded"
                    => t.ret = NOTED_1 \o t.calls[k].question \o NOTED_2
                /\ t.calls[k].outcome = "write_failed" => t.ret = APOLOGY
           /\ AppendsOne(feedback, feedback')
           /\ feedback'[Len(feedback')].question =
                IF "question" \in DOMAIN t.given.response.candidates[1][1].args
                THEN FirstArg(t, "question") ELSE t.message
           /\ leads' = leads

\* Neither of the two cases
OtherCase(t) ==
    /\ ~FirstCalls(t, FN_RECORD_CUSTOMER_INTEREST)
    /\ ~FirstCalls(t, FN_RECORD_FEEDBACK)

\* C13, amended: when the model returned a response to process_message, a
\* first segment that calls record_customer_interest runs exactly one finalize
\* with the name, email and message of the call (None for a missing one), no
\* feedback is recorded and the reply is what the finalize returned, the
\* apology when its write failed; a first segment that calls record_feedback
\* appends exactly one feedback record, whose question is the argument or else
\* the raw message, and no lead; in every other case no feedback is recorded,
\* a finalize runs only for a message with an e-mail and a contact keyword, and
\* when no recorder ran a response that is text is the reply, verbatim.
C13_Dispatch ==
    [][(Called.op = "process_message" /\ Responded(Called))
       => /\ DispatchesCall(Called)
          /\ OtherCase(Called)
                => /\ feedback' = feedback
                   /\ \A k \in RecorderCalls(Called) :
                        /\ Called.calls[k].call = "record_customer_interest"
                        /\ Present(SCANNED[Called.message].email)
                        /\ SCANNED[Called.message].contact_word
                   /\ \A text \in {TEXT_REPLY, TEXT_NAMING_TOOL} :
                        (RepliesText(Called, text) /\ RecorderCalls(Called) = {})
                            => Called.ret = text /\ leads' = leads]_vars

\* C13 as claimed: in every other case no recorder is invoked and a text of
\* the model is the reply
C13_AsClaimed ==
    [][(Called.op = "process_message" /\ Responded(Called))
       => /\ DispatchesCall(Called)
          /\ OtherCase(Called)
                => /\ RecorderCalls(Called) = {}
                   /\ \A text \in {TEXT_REPLY, TEXT_NAMING_TOOL} :
                        RepliesText(Called, text) => Called.ret = text]_vars

\* C13 happens: the model answered a message with a call of
\* record_customer_interest that names an e-mail only; one finalize ran with
\* that e-mail, and the reply thanks for the lead it recorded
C13_Witness ==
    /\ Len(trace) = 1
    /\ trace[1].op = "process_message"
    /\ trace[1].message = MSG_PLAIN
    /\ trace[1].given.response =
            Response(<<CallPart(FN_RECORD_CUSTOMER_INTEREST, [email |-> ARG_EMAIL])>>)
    /\ trace[1].calls =
            <<GenerateCall,
              InterestCall(DEFAULT_USER_ID, None, ARG_EMAIL, None, "recorded")>>
    /\ Len(leads) = 2
    /\ leads[2].email = ARG_EMAIL
    /\ trace[1].ret = THANKS_1 \o DEFAULT_NAME \o THANKS_2 \o DEFAULT_MESSAGE
                        \o THANKS_3 \o ARG_EMAIL \o THANKS_4
    /\ feedback = <<>>

\* No segment of the response given to t is a function call
NoFunctionCall(t) ==
    /\ t.given.response.kind = "response"
    /\ \A c \in DOMAIN t.given.response.candidates :
        \A k \in DOMAIN t.given.response.candidates[c] :
            t.given.response.candidates[c][k].kind # "function_call"

\* The first of the values that is present, None when none is
FirstPresent(values) ==
    IF \E k \in DOMAIN values : Present(values[k])
    THEN values[CHOOSE k \in DOMAIN values :
                    /\ Present(values[k])
                    /\ \A j \in 1..(k - 1) : ~Present(values[j])]
    ELSE None

\* C14: whenever the model returned to process_message a response without a
\* function call, the message carries an e-mail and a contact keyword, and the
\* write succeeds, exactly one lead is appended for user_id, with the e-mail of
\* the message, with the name of the message, else the name of the pending
\* entry, else the placeholder, and with the interest the pending entry held
\* before the message, else the default; the pending entry is removed and the
\* reply is the thank-you text.
C14_ForcedFinalize ==
    [][(/\ Called.op = "process_message"
        /\ Responded(Called)
        /\ NoFunctionCall(Called)
        /\ Present(SCANNED[Called.message].email)
        /\ SCANNED[Called.message].contact_word
        /\ Called.given.write = "ok")
       => /\ AppendsOne(leads, leads')
          /\ leads'[Len(leads')].user_id = Called.user_id
          /\ leads'[Len(leads')].email = SCANNED[Called.message].email
          /\ leads'[Len(leads')].name =
                FirstPresent(<<SCANNED[Called.message].name,
                               EntryField(pending_leads, Called.user_id, "name"),
                               DEFAULT_NAME>>)
          /\ leads'[Len(leads')].message =
                FirstPresent(<<EntryField(pending_leads, Called.user_id, "message"),
                               DEFAULT_MESSAGE>>)
          /\ Called.user_id \notin DOMAIN pending_leads'
          /\ Called.ret = THANKS_1 \o leads'[Len(leads')].name
                            \o THANKS_2 \o leads'[Len(leads')].message
                            \o THANKS_3 \o leads'[Len(leads')].email
                            \o THANKS_4]_vars

\* C14 fails: the message carries an e-mail and the keyword "call", the model
\* answered with a text that names record_feedback, and the reply is that text:
\* no lead was recorded and the e-mail stays in the pending entry
C14_NotForced ==
    /\ Len(trace) = 1
    /\ trace[1].op = "process_message"
    /\ trace[1].message = MSG_CONTACT
    /\ trace[1].given.response = Response(<<TextPart(TEXT_NAMING_TOOL)>>)
    /\ trace[1].given.write = "ok"
    /\ trace[1].ret = TEXT_NAMING_TOOL
    /\ RecorderCalls(trace[1]) = {}
    /\ leads = <<OLD_LEAD>>
    /\ trace[1].user_id \in DOMAIN pending_leads
    /\ pending_leads[trace[1].user_id].email = SCANNED[MSG_CONTACT].email

\* The call t stored its raw message as the interest of the pending entry
StoredInterest(t) ==
    /\ t.calls # <<>>
    /\ t.calls[1].call = "_update_pending_lead"
    /\ Present(t.calls[1].message)

\* The message holds an interest keyword, is longer than 10 characters and is
\* not just an e-mail address
IsInterest(message) ==
    /\ SCANNED[message].interest_word
    /\ Len(message) > 10
    /\ SCANNED[message].email # message

\* C15: process_message stores the raw message as the interest of the pending
\* entry exactly when the message holds an interest keyword, is longer than 10
\* characters and is not just an e-mail address: a message with a name or an
\* e-mail and no keyword leaves the interest as it is, and a keyword message
\* that holds an e-mail next to other text is stored.
C15_InterestCapture ==
    \A i \in DOMAIN trace :
        trace[i].op = "process_message"
            => /\ StoredInterest(trace[i]) <=> IsInterest(trace[i].message)
               /\ StoredInterest(trace[i])
                    => trace[i].calls[1].message = trace[i].message

\* C15 fails: "My name is Alex" holds no interest keyword and is the interest
\* of the pending entry after it was processed
C15_NameStored ==
    /\ Len(trace) = 1
    /\ trace[1].op = "process_message"
    /\ trace[1].message = MSG_NAME
    /\ ~SCANNED[MSG_NAME].interest_word
    /\ trace[1].given.response = Response(<<TextPart(TEXT_REPLY)>>)
    /\ trace[1].user_id \in DOMAIN pending_leads
    /\ pending_leads[trace[1].user_id].message = MSG_NAME

\* The user_ids whose pending entry holds a name, an e-mail or a message
HoldSomething ==
    {u \in DOMAIN pending_leads : \E f \in FIELDS : Present(pending_leads[u][f])}

\* C19: every entry of pending_leads holds at least one of name, email and
\* message, and the pending_leads count of get_stats is the number of user_ids
\* that hold one.
C19_NoEmptyEntry ==
    /\ HoldSomething = DOMAIN pending_leads
    /\ get_stats(Self, Env("ok")).pending_leads = Cardinality(HoldSomething)

\* C19 fails: "project?" left an entry that holds nothing, and get_stats
\* counts it
C19_EmptyEntry ==
    /\ Len(trace) = 1
    /\ trace[1].op = "process_message"
    /\ trace[1].message = MSG_KEYWORD
    /\ trace[1].user_id \in DOMAIN pending_leads
    /\ \A f \in FIELDS : pending_leads[trace[1].user_id][f] = None
    /\ get_stats(Self, Env("ok")).pending_leads = 1
    /\ HoldSomething = {}

\* C17: one call of process_message, whatever the model returned and whatever
\* came of the write, runs at most one recorder and appends at most one record
\* to leads and feedback together, leaving the records held before in place.
C17_NoDoubleFire ==
    [][Called.op = "process_message"
       => /\ Cardinality(RecorderCalls(Called)) <= 1
          /\ \/ leads' = leads /\ feedback' = feedback
             \/ AppendsOne(leads, leads') /\ feedback' = feedback
             \/ leads' = leads /\ AppendsOne(feedback, feedback')]_vars

\* C17 happens: the message carries an e-mail and a contact keyword, the model
\* answered it with a call of record_feedback, and the question is the one
\* record the message added: no lead was forced
C17_Witness ==
    /\ Len(trace) = 1
    /\ trace[1].op = "process_message"
    /\ trace[1].message = MSG_CONTACT
    /\ Present(SCANNED[MSG_CONTACT].email)
    /\ SCANNED[MSG_CONTACT].contact_word
    /\ trace[1].given.response = Response(<<CallPart(FN_RECORD_FEEDBACK, NO_ARGS)>>)
    /\ trace[1].given.write = "ok"
    /\ Len(feedback) = 1
    /\ feedback[1].question = MSG_CONTACT
    /\ leads = <<OLD_LEAD>>

\* The records the call trace[i] appended: their timestamp is the time of the
\* call
AppendedBy(i, records) ==
    {k \in DOMAIN records : records[k].timestamp = i}

\* C18: whenever process_message returned the apology it appended nothing to
\* leads and nothing to feedback; and when it returns, a lead it appended is in
\* leads.json and the pending entry of its user_id is removed.
C18_AllOrNothing ==
    \A i \in DOMAIN trace :
        trace[i].op = "process_message"
            => /\ trace[i].ret = APOLOGY
                    => AppendedBy(i, leads) = {} /\ AppendedBy(i, feedback) = {}
               /\ i = Len(trace)
                    => \A k \in AppendedBy(i, leads) :
                        /\ \E j \in DOMAIN leads_file.records :
                                leads_file.records[j] = leads[k]
                        /\ leads[k].user_id \notin DOMAIN pending_leads

\* C18 fails: the model called record_customer_interest, the write of
\* leads.json failed and the reply is the apology; the lead is in leads, not in
\* the file, and the pending entry is still there
C18_HalfRecorded ==
    /\ Len(trace) = 1
    /\ trace[1].op = "process_message"
    /\ trace[1].message = MSG_EMAIL
    /\ trace[1].given.write = "dump_fails"
    /\ trace[1].ret = APOLOGY
    /\ Len(leads) = 2
    /\ leads[2].email = ARG_EMAIL
    /\ leads_file.records = <<>>
    /\ trace[1].user_id \in DOMAIN pending_leads

\* The threads whose call of the recorder op appended a record
Appenders(op) ==
    {t \in THREADS : /\ threads[t].pc # "idle"
                     /\ threads[t].call.op = op
                     /\ threads[t].outcome = "recorded"}

\* Every thread has returned from its call
AllReturned ==
    \A t \in THREADS : threads[t].pc = "done"

\* After two concurrent calls: list holds the records held at the start and
\* those of all appenders, and file holds the records the last flush wrote,
\* all of list or all but the one appended last, and then in a file that the
\* flush left garbled
RewrittenFrom(op, list, file, held) ==
    /\ Len(list) = held + Cardinality(Appenders(op))
    /\ \A t \in Appenders(op) : \E k \in DOMAIN list : list[k] = threads[t].record
    /\ Appenders(op) # {}
        => /\ Len(file.records) \in {Len(list) - 1, Len(list)}
           /\ file.records = SubSeq(list, 1, Len(file.records))
           /\ file.status = IF file.records = list THEN "written" ELSE "garbled"

\* C16: when two calls of record_customer_interest, or two of record_feedback,
\* run at the same time, each appending to the shared list and then rewriting
\* the whole file, both appended records are in the list once both returned,
\* and the file holds what the call that closed it last had encoded: the whole
\* list, or the list without the record the other call appended after that.
C16_LostAppend ==
    AllReturned
        => /\ RewrittenFrom("record_customer_interest", leads, leads_file, 1)
           /\ RewrittenFrom("record_feedback", feedback, feedback_file, 0)

\* C16 happens: both threads ran record_customer_interest and returned, both
\* leads are in the list, and leads.json lacks the lead appended last
C16_Witness ==
    /\ AllReturned
    /\ Appenders("record_customer_interest") = THREADS
    /\ Len(leads) = 3
    /\ \A t \in THREADS : \E k \in DOMAIN leads : leads[k] = threads[t].record
    /\ leads_file.records = SubSeq(leads, 1, 2)
    /\ \A j \in DOMAIN leads_file.records : leads_file.records[j] # leads[3]

=============================================================================
